---- MODULE Spec2Model ----
(***************************************************************************)
(* Model of the research-agent API of talent-promo.                        *)
(*                                                                         *)
(*   apps/api/routers/research_agent.py  analyze_role, get_workflow_status,*)
(*                                       get_temporal_client               *)
(*   apps/api/config.py                  Settings, get_settings            *)
(*   temporal/workflows/research_workflow.py  ResearchWorkflow.run         *)
(*                                                                         *)
(* Python strings are TLA+ strings; an Optional value is a sequence of     *)
(* length 0 (None) or 1 (the value).  The workflow engine behind the       *)
(* client object is a map from workflow id to the execution it holds.      *)
(* Each request names the one call of it that fails (fault), if any: a     *)
(* handler makes no further call after one has raised.                     *)
(***************************************************************************)
EXTENDS Integers, Sequences, FiniteSets, TLC

VARIABLES
    patched,          \* get_temporal_client is replaced by a stub (test suite)
    dotenv,           \* contents of the .env file read by Settings
    environ,          \* os.environ entries the code reads and writes
    settings_cache,   \* lru_cache of get_settings
    temporal_client,  \* module global _temporal_client
    uuid_count,       \* number of values uuid.uuid4 has produced
    workflows,        \* engine: workflow id -> execution
    request,          \* the request handled last
    response,         \* the response to it
    calls,            \* client/engine calls the handler made, with outcomes
    submitted,        \* submissions answered "running", in order
    clients,          \* callers of get_temporal_client: where each one stands
    connections,      \* the clients Client.connect has returned, in order
    executions,       \* workflow id -> what its ResearchWorkflow.run did
    poll_log,         \* payloads answered for executions described COMPLETED, in order
    temporal_task_queue, \* the task-queue name the worker is configured with
    worker,           \* the task queue the worker started by run_worker polls, if any
    user_data,        \* privacy.py: user id -> what is stored about the user
    deletion_logs,    \* privacy.py: one record per deletion, in order
    privacy_reply,    \* privacy.py: the request handled last and the answer to it
    confirmations,    \* privacy.py: the confirmation ids answered so far, in order
    now,              \* review.py: the clock, in hours
    review_links,     \* review.py: link id -> the link's metadata and token
    token_hex_count,  \* review.py: number of values secrets.token_hex has produced
    comments,         \* review.py: the documents commented, each with its comments, in order
    added,            \* review.py: the comments add_comment has accepted, in order
    review_reply,     \* review.py: the request handled last and the answer to it
    workflow_states,  \* workflow.py: run id -> state of the editing run
    last_op,          \* workflow.py: run id -> the operation that last changed it
    edit_reply        \* workflow.py: the request handled last and the answer to it

vars == <<patched, dotenv, environ, settings_cache, temporal_client,
          uuid_count, workflows, request, response, calls, submitted,
          clients, connections, executions, poll_log,
          temporal_task_queue, worker,
          user_data, deletion_logs, privacy_reply, confirmations,
          now, review_links, token_hex_count, comments, added, review_reply,
          workflow_states, last_op, edit_reply>>

\* what the handlers of the research API read and write
apiVars == <<patched, dotenv, environ, settings_cache, temporal_client,
             uuid_count, workflows, request, response, calls, submitted>>

\* bookkeeping of the callers of get_temporal_client taken one await at a time
clientVars == <<clients, connections>>

\* bookkeeping of the workflow runs and of the polls that follow them
runVars == <<executions, poll_log>>

procVars == <<dotenv, environ, settings_cache, temporal_client>>

\* the worker process and its configuration
queueVars == <<temporal_task_queue, worker>>

\* the stores of the privacy, review and editing routers
privacyVars == <<user_data, deletion_logs, privacy_reply, confirmations>>
reviewVars == <<now, review_links, token_hex_count, comments, added, review_reply>>
editVars == <<workflow_states, last_op, edit_reply>>

\* everything the research API and the workflow runs leave alone
researchVars == <<apiVars, clientVars, runVars>>
routerVars == <<privacyVars, reviewVars, editVars>>

(***************************************************************************)
(* Bounds and sample inputs                                                *)
(***************************************************************************)
MaxSubmissions == 2

\* workflows started where the runs of the workflow are followed
MaxRuns == 1

\* polls of completed executions whose payloads are kept for comparison
MaxPolls == 2

\* callers of get_temporal_client followed one await at a time
MaxRequests == 3
Requests == 1 .. MaxRequests

None == <<>>
Some(v) == <<v>>

RECURSIVE Rep(_, _)
Rep(s, n) ==
    IF n = 0 THEN ""
    ELSE IF n % 2 = 1 THEN s \o Rep(s, n - 1)
    ELSE Rep(s \o s, n \div 2)

TitleMinLen == 1
TitleMaxLen == 50
UrlMaxLen == 1000

Title1 == "D"
TitleMax == Rep("t", TitleMaxLen)
TitleOver == Rep("t", TitleMaxLen + 1)
UrlMax == Rep("u", UrlMaxLen)
UrlOver == Rep("u", UrlMaxLen + 1)

\* request bodies sent to POST /analyze: job_title and job_url, each optional
RequestInputs ==
    { [job_title |-> Some(Title1),    job_url |-> None],
      [job_title |-> Some(TitleMax),  job_url |-> Some(UrlMax)],
      [job_title |-> Some(Title1),    job_url |-> Some("")],
      [job_title |-> None,            job_url |-> None],
      [job_title |-> Some(""),        job_url |-> None],
      [job_title |-> Some(TitleOver), job_url |-> None],
      [job_title |-> Some(Title1),    job_url |-> Some(UrlOver)] }


(***************************************************************************)
(* apps/api/routers/research_agent.py: request schema and identifiers      *)
(***************************************************************************)
\* ResearchRequest with the title limit off by one
ValidResearchRequest_TitleOffByOne(body) ==
    /\ body.job_title # None
    /\ Len(body.job_title[1]) >= TitleMinLen
    /\ Len(body.job_title[1]) <= TitleMaxLen + 1
    /\ (body.job_url # None => Len(body.job_url[1]) <= UrlMaxLen)

\* ResearchRequest: job_title required, 1..50 characters; job_url optional,
\* at most 1000 characters
ValidResearchRequest(body) ==
    /\ body.job_title # None
    /\ Len(body.job_title[1]) >= TitleMinLen
    /\ Len(body.job_title[1]) <= TitleMaxLen
    /\ (body.job_url # None => Len(body.job_url[1]) <= UrlMaxLen)

\* str(uuid.uuid4()): the n-th value drawn; the uuid module's contract is
\* that a value is never produced twice
Uuid4Str(n) == "uuid" \o ToString(n)

\* workflow id that leaves the request id out
WorkflowId_Constant(request_id) == "research-"

\* f"research-{request_id}"
WorkflowId(request_id) == "research-" \o request_id

\* str.replace(old, ""): every occurrence of old removed, left to right
RECURSIVE StrRemove(_, _)
StrRemove(s, old) ==
    IF Len(s) < Len(old) THEN s
    ELSE IF SubSeq(s, 1, Len(old)) = old
         THEN StrRemove(SubSeq(s, Len(old) + 1, Len(s)), old)
         ELSE SubSeq(s, 1, 1) \o StrRemove(SubSeq(s, 2, Len(s)), old)

\* request_id = workflow_id.replace("research-", "")
RequestIdOf(workflow_id) == StrRemove(workflow_id, "research-")

\* workflow ids polled through GET /status/{workflow_id}
StatusInputs ==
    { WorkflowId(Uuid4Str(n)) : n \in 1..MaxSubmissions } \cup { "nonexistent-id" }

\* one call a handler made: what was called, with which id, what it raised
\* (None if it returned) and the status it returned (describe only)
Call(op, id, raised, returned) ==
    [op |-> op, id |-> id, raised |-> raised, returned |-> returned]

(***************************************************************************)
(* apps/api/config.py                                                      *)
(***************************************************************************)
SettingsFields == { "openai_api_key", "openai_model", "openai_timeout", "log_level" }

\* a Settings class that also declares the engine fields its callers read:
\* the configuration surface the system is described with
EngineSettingsFields ==
    SettingsFields \cup { "temporal_address", "temporal_namespace", "temporal_task_queue" }

DefaultOpenaiModel == "gpt-5-mini"

\* Settings(): environment first, then the .env file, then the default;
\* openai_api_key has no default
LoadSettings(env, file) ==
    LET key == IF env.OPENAI_API_KEY # None THEN env.OPENAI_API_KEY
               ELSE file.OPENAI_API_KEY
        model == IF env.OPENAI_MODEL # None THEN env.OPENAI_MODEL[1]
                 ELSE IF file.OPENAI_MODEL # None THEN file.OPENAI_MODEL[1]
                 ELSE DefaultOpenaiModel
    IN  IF key = None
        THEN [raised |-> Some("1 validation error for Settings: openai_api_key Field required"),
              settings |-> None]
        ELSE [raised |-> None,
              settings |-> Some([openai_api_key |-> key[1], openai_model |-> model])]

\* get_settings(): lru_cache keeps the first instance built; a raise caches nothing
GetSettings(cache, env, file) ==
    IF cache # None THEN [raised |-> None, settings |-> cache]
    ELSE LoadSettings(env, file)

(***************************************************************************)
(* get_temporal_client                                                     *)
(***************************************************************************)
\* what the test suite patches in: a stub that returns a client object and
\* touches nothing
StubTemporalClient(client, cache, env) ==
    [raised |-> None, client |-> Some("mock_client"),
     temporal_client |-> client, settings_cache |-> cache, environ |-> env,
     connected |-> << >>,
     calls |-> << Call("get_temporal_client", "", None, None) >>]

\* the settings attributes get_temporal_client reads
ClientSettingsReads ==
    { "openai_api_key", "openai_model", "temporal_address", "temporal_namespace" }

\* the settings attributes run_worker reads
WorkerSettingsReads ==
    { "openai_api_key", "openai_model", "openai_timeout",
      "temporal_address", "temporal_namespace", "temporal_task_queue" }

\* the first of the attributes read that Settings does not have
MissingAttribute(fields, reads) ==
    IF "temporal_address" \in reads \ fields THEN "temporal_address"
    ELSE IF "temporal_namespace" \in reads \ fields THEN "temporal_namespace"
    ELSE IF "temporal_task_queue" \in reads \ fields THEN "temporal_task_queue"
    ELSE ""

\* a get_temporal_client that connects on every call
NeedsConnect_Always(client) == TRUE

\* if _temporal_client is None
NeedsConnect(client) == client = None

\* the n-th client object Client.connect returns
ConnectionName(n) == "client" \o ToString(n)

\* get_temporal_client from get_settings() to the arguments of Client.connect:
\* no await in between.  fields are the attributes the Settings object has.
ClientSetup(fields, cache, env, file) ==
    LET gs == GetSettings(cache, env, file) IN
    IF gs.raised # None
    THEN [raised |-> gs.raised, settings_cache |-> cache, environ |-> env]
    ELSE
    LET st == gs.settings[1]
        env1 == [env EXCEPT !.OPENAI_API_KEY = Some(st.openai_api_key)]
        env2 == IF st.openai_model # ""
                THEN [env1 EXCEPT !.OPENAI_MODEL = Some(st.openai_model)]
                ELSE env1
        missing == MissingAttribute(fields, ClientSettingsReads)
    IN  [raised |-> IF missing # ""
                    THEN Some("'Settings' object has no attribute '" \o missing \o "'")
                    ELSE None,
         settings_cache |-> gs.settings, environ |-> env2]

\* the function run without interruption; connectUp says whether
\* Client.connect succeeds, name is the client it would return
GetTemporalClientWith(fields, client, cache, env, file, connectUp, name) ==
    IF ~NeedsConnect(client)
    THEN [raised |-> None, client |-> client,
          temporal_client |-> client, settings_cache |-> cache, environ |-> env,
          connected |-> << >>,
          calls |-> << Call("get_temporal_client", "", None, None) >>]
    ELSE
    LET s == ClientSetup(fields, cache, env, file) IN
    IF s.raised # None
    THEN [raised |-> s.raised, client |-> None,
          temporal_client |-> client, settings_cache |-> s.settings_cache,
          environ |-> s.environ, connected |-> << >>,
          calls |-> << Call("get_temporal_client", "", s.raised, None) >>]
    ELSE IF ~connectUp
    THEN LET msg == "Failed client connect" IN
         [raised |-> Some(msg), client |-> None,
          temporal_client |-> client, settings_cache |-> s.settings_cache,
          environ |-> s.environ, connected |-> << >>,
          calls |-> << Call("Client.connect", "", Some(msg), None),
                       Call("get_temporal_client", "", Some(msg), None) >>]
    ELSE [raised |-> None, client |-> Some(name),
          temporal_client |-> Some(name), settings_cache |-> s.settings_cache,
          environ |-> s.environ, connected |-> << name >>,
          calls |-> << Call("Client.connect", "", None, None),
                       Call("get_temporal_client", "", None, None) >>]

\* the function with the Settings class of config.py
GetTemporalClient(client, cache, env, file, connectUp) ==
    GetTemporalClientWith(SettingsFields, client, cache, env, file, connectUp,
                          ConnectionName(Len(connections) + 1))

\* the get_temporal_client the handlers call in this process
ObtainClient(connectUp) ==
    IF patched
    THEN StubTemporalClient(temporal_client, settings_cache, environ)
    ELSE GetTemporalClient(temporal_client, settings_cache, environ, dotenv, connectUp)

(***************************************************************************)
(* temporal/workflows/research_workflow.py                                 *)
(***************************************************************************)
\* what Runner.run hands back: the structured output and, per model
\* response, its usage (None when the response reports none)
AgentRuns ==
    { [final_output |-> [role_summary |-> "summary",
                         requirements |-> << "req" >>,
                         skills |-> << "skill" >>,
                         company_context |-> None],
       raw_responses |-> << Some([input_tokens |-> 100, output_tokens |-> 150]), None >>] }

RECURSIVE SumTokens(_, _)
SumTokens(raw_responses, field) ==
    IF raw_responses = << >> THEN 0
    ELSE (IF Head(raw_responses) # None THEN Head(raw_responses)[1][field] ELSE 0)
         + SumTokens(Tail(raw_responses), field)

\* a result whose total repeats the prompt tokens
ResearchWorkflowRun_TotalIsPrompt(req, run) ==
    LET total_input_tokens == SumTokens(run.raw_responses, "input_tokens")
        total_output_tokens == SumTokens(run.raw_responses, "output_tokens")
    IN  [job_title |-> req.job_title,
         job_url |-> req.job_url,
         result |-> run.final_output,
         usage |-> [prompt_tokens |-> total_input_tokens,
                    completion_tokens |-> total_output_tokens,
                    total_tokens |-> total_input_tokens]]

\* ResearchWorkflow.run: the ResearchWorkflowResult of a successful run
ResearchWorkflowRun(req, run) ==
    LET total_input_tokens == SumTokens(run.raw_responses, "input_tokens")
        total_output_tokens == SumTokens(run.raw_responses, "output_tokens")
    IN  [job_title |-> req.job_title,
         job_url |-> req.job_url,
         result |-> run.final_output,
         usage |-> [prompt_tokens |-> total_input_tokens,
                    completion_tokens |-> total_output_tokens,
                    total_tokens |-> total_input_tokens + total_output_tokens]]

\* ResearchResult: requirements and skills hold 1 to 15 entries each
ResultMinItems == 1
ResultMaxItems == 15

\* a ResearchResult that admits one entry more than the limit
ValidResearchResult_OneMore(o) ==
    /\ Len(o.requirements) >= ResultMinItems
    /\ Len(o.requirements) <= ResultMaxItems + 1
    /\ Len(o.skills) >= ResultMinItems
    /\ Len(o.skills) <= ResultMaxItems + 1

ValidResearchResult(o) ==
    /\ Len(o.requirements) >= ResultMinItems
    /\ Len(o.requirements) <= ResultMaxItems
    /\ Len(o.skills) >= ResultMinItems
    /\ Len(o.skills) <= ResultMaxItems

\* a list of n entries
Items(n, s) == [i \in 1..n |-> s]

\* the structured output the model produced, before it is a ResearchResult
ModelOutput(nreq, nskill) ==
    [role_summary |-> "summary",
     requirements |-> Items(nreq, "req"),
     skills |-> Items(nskill, "skill"),
     company_context |-> None]

\* what one invocation of the agent can come to: an exception out of
\* Runner.run, or the model's output and, per model response, its usage
AgentOutcomes ==
    { [raised |-> None, final_output |-> ModelOutput(1, 1), raw_responses |-> rr] :
        rr \in { << >>,
                 << Some([input_tokens |-> 100, output_tokens |-> 150]), None >>,
                 << Some([input_tokens |-> 100, output_tokens |-> 150]),
                    Some([input_tokens |-> 7, output_tokens |-> 0]) >> } }
    \cup
    { [raised |-> None, final_output |-> ModelOutput(n[1], n[2]),
       raw_responses |-> << Some([input_tokens |-> 100, output_tokens |-> 150]) >>] :
        n \in { <<ResultMaxItems, ResultMaxItems>>,
                <<ResultMinItems - 1, 1>>, <<1, ResultMinItems - 1>>,
                <<ResultMaxItems + 1, 1>>, <<1, ResultMaxItems + 1>> } }
    \cup
    { [raised |-> Some("model call timed out"), final_output |-> ModelOutput(1, 1),
       raw_responses |-> << >>] }

\* if request.job_url is not None:
Truthy_NotNone(s) == s # None

\* if request.job_url:
Truthy(s) == s # None /\ s[1] # ""

\* research_input, the prompt handed to the agent
ResearchInput(req) ==
    LET research_input == "Job Title: " \o req.job_title IN
    IF Truthy(req.job_url)
    THEN research_input \o "\nJob URL: " \o req.job_url[1]
         \o "\n\nPlease analyze this job posting and extract the key information."
    ELSE research_input
         \o "\n\nPlease research this role and provide typical requirements and skills."

\* Runner.run(agent, research_input) with output_type=ResearchResult: raises
\* what the model call raises, and raises when the output is no ResearchResult
RunnerRun(outcome) ==
    IF outcome.raised # None THEN [raised |-> outcome.raised, result |-> None]
    ELSE IF ~ValidResearchResult(outcome.final_output)
    THEN [raised |-> Some("validation error for ResearchResult"), result |-> None]
    ELSE [raised |-> None, result |-> Some(outcome)]

\* a run that invokes the agent a second time when the first invocation raised
ExecuteResearchWorkflow_RetriesAgent(req, outcome) ==
    LET research_input == ResearchInput(req)
        r == RunnerRun(outcome)
    IN  [agent_inputs |-> IF r.raised # None THEN << research_input, research_input >>
                          ELSE << research_input >>,
         raised |-> r.raised,
         returned |-> IF r.raised # None THEN None
                      ELSE Some(ResearchWorkflowRun(req, r.result[1]))]

\* ResearchWorkflow.run from entry to return or raise: the prompts it handed
\* to the agent, and what it returned
ExecuteResearchWorkflow(req, outcome) ==
    LET research_input == ResearchInput(req)
        r == RunnerRun(outcome)
    IN  [agent_inputs |-> << research_input >>,
         raised |-> r.raised,
         returned |-> IF r.raised # None THEN None
                      ELSE Some(ResearchWorkflowRun(req, r.result[1]))]

(***************************************************************************)
(* The workflow engine behind the client                                   *)
(***************************************************************************)
\* names of the execution statuses describe() reports for a closed run that
\* did not complete
ClosedStatuses == { "FAILED", "CANCELED", "TERMINATED", "CONTINUED_AS_NEW", "TIMED_OUT" }

Known(wfs, workflow_id) == workflow_id \in DOMAIN wfs

\* the task_queue argument analyze_role passes to start_workflow
ApiTaskQueue == "research-task-queue"

\* no request handled yet by a router
NoReply == [op |-> "none", status |-> 0]

\* client.start_workflow(ResearchWorkflow.run, workflow_request, id=...,
\* task_queue=...): the execution is placed on the queue named
StartWorkflow(wfs, workflow_id, workflow_request, task_queue, up) ==
    IF ~up
    THEN [raised |-> Some("engine unavailable"), workflows |-> wfs]
    ELSE IF Known(wfs, workflow_id) /\ wfs[workflow_id].status = Some("RUNNING")
    THEN [raised |-> Some("Workflow execution already started"), workflows |-> wfs]
    ELSE [raised |-> None,
          workflows |-> [w \in DOMAIN wfs \cup {workflow_id} |->
                            IF w = workflow_id
                            THEN [status |-> Some("RUNNING"),
                                  request |-> workflow_request,
                                  task_queue |-> task_queue,
                                  stored |-> None]
                            ELSE wfs[w]]]

\* handle.describe(): the status of the execution, or a raise
Describe(wfs, workflow_id, up) ==
    IF ~up THEN [raised |-> Some("engine unavailable"), status |-> None]
    ELSE IF ~Known(wfs, workflow_id)
    THEN [raised |-> Some("workflow not found"), status |-> None]
    ELSE [raised |-> None, status |-> wfs[workflow_id].status]

\* handle.result() of a completed execution: the stored value, or a raise
FetchResult(wfs, workflow_id, up) ==
    IF ~up \/ wfs[workflow_id].stored = None
    THEN [raised |-> Some("result unavailable"), value |-> None]
    ELSE [raised |-> None, value |-> wfs[workflow_id].stored]

(***************************************************************************)
(* POST /api/research-agent/analyze                                        *)
(***************************************************************************)
\* FastAPI's answer to a body that fails ResearchRequest validation
ValidationErrorResponse ==
    [endpoint |-> "analyze", code |-> 422, detail |-> None, body |-> None]

\* ResearchResponse that reports the bare request id as the workflow id
ResearchResponse_BareId(request_id, workflow_id, body) ==
    [endpoint |-> "analyze", code |-> 200, detail |-> None,
     body |-> Some([request_id |-> request_id,
                    workflow_id |-> request_id,
                    job_title |-> body.job_title[1],
                    job_url |-> body.job_url,
                    status |-> "running"])]

\* ResearchResponse(...) returned with status "running"
ResearchResponse(request_id, workflow_id, body) ==
    [endpoint |-> "analyze", code |-> 200, detail |-> None,
     body |-> Some([request_id |-> request_id,
                    workflow_id |-> workflow_id,
                    job_title |-> body.job_title[1],
                    job_url |-> body.job_url,
                    status |-> "running"])]

\* server error that drops the exception text
StartFailure_NoMessage(e) ==
    [endpoint |-> "analyze", code |-> 500,
     detail |-> Some("Failed to start research workflow"), body |-> None]

\* except Exception as e: raise HTTPException(500, ...)
StartFailure(e) ==
    [endpoint |-> "analyze", code |-> 500,
     detail |-> Some("Failed to start research workflow: " \o e), body |-> None]

\* WorkflowResearchRequest(job_title=..., job_url=...)
WorkflowResearchRequest(body) ==
    [job_title |-> body.job_title[1], job_url |-> body.job_url]

\* analyze_role that answers "running" whether or not start_workflow raised
AnalyzeRoleBody_IgnoresStartFailure(body, n, oc, wfs, startUp) ==
    LET request_id == Uuid4Str(n)
        workflow_id == WorkflowId(request_id)
    IN  IF oc.raised # None
        THEN [response |-> StartFailure(oc.raised[1]), calls |-> oc.calls,
              workflows |-> wfs, accepted |-> << >>]
        ELSE
        LET sw == StartWorkflow(wfs, workflow_id, WorkflowResearchRequest(body), ApiTaskQueue, startUp)
            cs == Append(oc.calls, Call("start_workflow", workflow_id, sw.raised, None))
        IN  [response |-> ResearchResponse(request_id, workflow_id, body),
             calls |-> cs, workflows |-> sw.workflows,
             accepted |-> << [request_id |-> request_id,
                              workflow_id |-> workflow_id] >>]

\* the body of analyze_role for a validated request: oc is what
\* get_temporal_client gave, n the draw of uuid4
\* handler that calls start_workflow a second time when the first call raised
AnalyzeRoleBody_RetriesStart(body, n, oc, wfs, startUp) ==
    LET request_id == Uuid4Str(n)
        workflow_id == WorkflowId(request_id)
    IN  IF oc.raised # None
        THEN [response |-> StartFailure(oc.raised[1]), calls |-> oc.calls,
              workflows |-> wfs, accepted |-> << >>]
        ELSE
        LET sw == StartWorkflow(wfs, workflow_id, WorkflowResearchRequest(body), ApiTaskQueue, startUp)
            c == Call("start_workflow", workflow_id, sw.raised, None)
        IN  IF sw.raised # None
            THEN [response |-> StartFailure(sw.raised[1]),
                  calls |-> oc.calls \o << c, c >>,
                  workflows |-> sw.workflows, accepted |-> << >>]
            ELSE [response |-> ResearchResponse(request_id, workflow_id, body),
                  calls |-> Append(oc.calls, c), workflows |-> sw.workflows,
                  accepted |-> << [request_id |-> request_id,
                                   workflow_id |-> workflow_id] >>]

AnalyzeRoleBody(body, n, oc, wfs, startUp) ==
    LET request_id == Uuid4Str(n)
        workflow_id == WorkflowId(request_id)
    IN  IF oc.raised # None
        THEN [response |-> StartFailure(oc.raised[1]), calls |-> oc.calls,
              workflows |-> wfs, accepted |-> << >>]
        ELSE
        LET sw == StartWorkflow(wfs, workflow_id, WorkflowResearchRequest(body), ApiTaskQueue, startUp)
            cs == Append(oc.calls, Call("start_workflow", workflow_id, sw.raised, None))
        IN  IF sw.raised # None
            THEN [response |-> StartFailure(sw.raised[1]), calls |-> cs,
                  workflows |-> sw.workflows, accepted |-> << >>]
            ELSE [response |-> ResearchResponse(request_id, workflow_id, body),
                  calls |-> cs, workflows |-> sw.workflows,
                  accepted |-> << [request_id |-> request_id,
                                   workflow_id |-> workflow_id] >>]

AnalyzeRequest(body) ==
    [endpoint |-> "analyze", job_title |-> body.job_title,
     job_url |-> body.job_url, workflow_id |-> ""]

\* one request to the endpoint; fault names the call that fails, if any
AnalyzeRoleStep(body, fault) ==
    /\ request' = AnalyzeRequest(body)
    /\ IF ~ValidResearchRequest(body)
       THEN /\ response' = ValidationErrorResponse
            /\ calls' = << >>
            /\ UNCHANGED <<patched, procVars, uuid_count, workflows, submitted,
                           connections>>
       ELSE /\ uuid_count < MaxSubmissions
            /\ uuid_count' = uuid_count + 1
            /\ LET oc == ObtainClient(fault # "Client.connect")
                   r == AnalyzeRoleBody(body, uuid_count + 1, oc, workflows,
                                        fault # "start_workflow")
               IN  /\ temporal_client' = oc.temporal_client
                   /\ settings_cache' = oc.settings_cache
                   /\ environ' = oc.environ
                   /\ response' = r.response
                   /\ calls' = r.calls
                   /\ workflows' = r.workflows
                   /\ submitted' = submitted \o r.accepted
                   /\ connections' = connections \o oc.connected
            /\ UNCHANGED <<patched, dotenv>>

analyze_role ==
    \E body \in RequestInputs, fault \in { "none", "Client.connect", "start_workflow" } :
        /\ AnalyzeRoleStep(body, fault)
        /\ UNCHANGED <<clients, runVars>>
        /\ UNCHANGED <<queueVars, routerVars>>

(***************************************************************************)
(* GET /api/research-agent/status/{workflow_id}                            *)
(***************************************************************************)
\* a missing status taken for a running workflow
StatusName_MissingIsRunning(status) == IF status # None THEN status[1] ELSE "RUNNING"

\* description.status.name if description.status else "UNKNOWN"
StatusName(status) == IF status # None THEN status[1] ELSE "UNKNOWN"

\* answer whose error field, when a result is relayed, keeps the detail of
\* the answer given before it
StatusResponse_StaleError(body) ==
    [endpoint |-> "status", code |-> 200, detail |-> None,
     body |-> Some([body EXCEPT !.error = IF body.result # None THEN response.detail
                                          ELSE body.error])]

StatusResponse(body) ==
    [endpoint |-> "status", code |-> 200, detail |-> None, body |-> Some(body)]

\* completed response that keeps the placeholder title of the other branches
CompletedResponse_Placeholder(workflow_id, result) ==
    StatusResponse([request_id |-> RequestIdOf(workflow_id),
                    workflow_id |-> workflow_id,
                    job_title |-> "[Completed]",
                    job_url |-> None,
                    status |-> "completed",
                    result |-> Some(result.result),
                    usage |-> Some(result.usage),
                    error |-> None])

\* status COMPLETED and the result fetched
CompletedResponse(workflow_id, result) ==
    StatusResponse([request_id |-> RequestIdOf(workflow_id),
                    workflow_id |-> workflow_id,
                    job_title |-> result.job_title,
                    job_url |-> result.job_url,
                    status |-> "completed",
                    result |-> Some(result.result),
                    usage |-> Some(result.usage),
                    error |-> None])

\* fetch failure reported as a failed workflow
FetchFailedResponse_AsFailed(workflow_id, e) ==
    StatusResponse([request_id |-> RequestIdOf(workflow_id),
                    workflow_id |-> workflow_id,
                    job_title |-> "[Failed]",
                    job_url |-> None,
                    status |-> "failed",
                    result |-> None,
                    usage |-> None,
                    error |-> Some("Failed to retrieve result: " \o e)])

\* status COMPLETED but the result could not be fetched
FetchFailedResponse(workflow_id, e) ==
    StatusResponse([request_id |-> RequestIdOf(workflow_id),
                    workflow_id |-> workflow_id,
                    job_title |-> "[Completed]",
                    job_url |-> None,
                    status |-> "completed",
                    result |-> None,
                    usage |-> None,
                    error |-> Some("Failed to retrieve result: " \o e)])

\* running response that fills the error field the way the failed branch does
RunningResponse_WithError(workflow_id) ==
    StatusResponse([request_id |-> RequestIdOf(workflow_id),
                    workflow_id |-> workflow_id,
                    job_title |-> "[In Progress]",
                    job_url |-> None,
                    status |-> "running",
                    result |-> None,
                    usage |-> None,
                    error |-> Some("Workflow status: RUNNING")])

\* status RUNNING
RunningResponse(workflow_id) ==
    StatusResponse([request_id |-> RequestIdOf(workflow_id),
                    workflow_id |-> workflow_id,
                    job_title |-> "[In Progress]",
                    job_url |-> None,
                    status |-> "running",
                    result |-> None,
                    usage |-> None,
                    error |-> None])

\* any other status
FailedResponse(workflow_id, status_name) ==
    StatusResponse([request_id |-> RequestIdOf(workflow_id),
                    workflow_id |-> workflow_id,
                    job_title |-> "[Failed]",
                    job_url |-> None,
                    status |-> "failed",
                    result |-> None,
                    usage |-> None,
                    error |-> Some("Workflow status: " \o status_name)])

\* the status handler's except clause answering like the submission handler's
StatusFailure_ServerError(e) ==
    [endpoint |-> "status", code |-> 500,
     detail |-> Some("Workflow not found or error: " \o e), body |-> None]

\* except Exception as e: raise HTTPException(404, ...)
StatusFailure(e) ==
    [endpoint |-> "status", code |-> 404,
     detail |-> Some("Workflow not found or error: " \o e), body |-> None]

\* the body of get_workflow_status
GetWorkflowStatusBody(workflow_id, oc, wfs, describeUp, fetchUp) ==
    IF oc.raised # None
    THEN [response |-> StatusFailure(oc.raised[1]), calls |-> oc.calls]
    ELSE
    LET d == Describe(wfs, workflow_id, describeUp)
        cs == oc.calls \o << Call("get_workflow_handle", workflow_id, None, None),
                             Call("describe", workflow_id, d.raised, d.status) >>
    IN  IF d.raised # None
        THEN [response |-> StatusFailure(d.raised[1]), calls |-> cs]
        ELSE
        LET status_name == StatusName(d.status) IN
        IF status_name = "COMPLETED"
        THEN LET f == FetchResult(wfs, workflow_id, fetchUp)
                 cf == Append(cs, Call("result", workflow_id, f.raised, None))
             IN  IF f.raised # None
                 THEN [response |-> FetchFailedResponse(workflow_id, f.raised[1]),
                       calls |-> cf]
                 ELSE [response |-> CompletedResponse(workflow_id, f.value[1]),
                       calls |-> cf]
        ELSE IF status_name = "RUNNING"
        THEN [response |-> RunningResponse(workflow_id), calls |-> cs]
        ELSE [response |-> FailedResponse(workflow_id, status_name), calls |-> cs]

StatusRequest(workflow_id) ==
    [endpoint |-> "status", job_title |-> None, job_url |-> None,
     workflow_id |-> workflow_id]

\* status handler that asks the engine to forget an execution once it has
\* reported it closed
GetWorkflowStatusStep_ForgetsClosed(workflow_id, fault) ==
    LET oc == ObtainClient(fault # "Client.connect")
        r == GetWorkflowStatusBody(workflow_id, oc, workflows,
                                   fault # "describe", fault # "result")
        closed == r.response.body # None /\ r.response.body[1].status # "running"
    IN  /\ request' = StatusRequest(workflow_id)
        /\ temporal_client' = oc.temporal_client
        /\ settings_cache' = oc.settings_cache
        /\ environ' = oc.environ
        /\ response' = r.response
        /\ calls' = r.calls
        /\ connections' = connections \o oc.connected
        /\ workflows' = IF closed
                        THEN [w \in DOMAIN workflows \ {workflow_id} |-> workflows[w]]
                        ELSE workflows
        /\ UNCHANGED <<patched, dotenv, uuid_count, submitted>>

\* one request to the endpoint; fault names the call that fails, if any
GetWorkflowStatusStep(workflow_id, fault) ==
    LET oc == ObtainClient(fault # "Client.connect")
        r == GetWorkflowStatusBody(workflow_id, oc, workflows,
                                   fault # "describe", fault # "result")
    IN  /\ request' = StatusRequest(workflow_id)
        /\ temporal_client' = oc.temporal_client
        /\ settings_cache' = oc.settings_cache
        /\ environ' = oc.environ
        /\ response' = r.response
        /\ calls' = r.calls
        /\ connections' = connections \o oc.connected
        /\ UNCHANGED <<patched, dotenv, uuid_count, workflows, submitted>>

get_workflow_status ==
    \E workflow_id \in StatusInputs,
       fault \in { "none", "Client.connect", "describe", "result" } :
        /\ GetWorkflowStatusStep(workflow_id, fault)
        /\ UNCHANGED <<clients, runVars>>
        /\ UNCHANGED <<queueVars, routerVars>>

(***************************************************************************)
(* The engine's worker runs the workflows                                  *)
(***************************************************************************)
\* ResearchWorkflow.run returns: the execution completes with its result
EngineComplete ==
    \E w \in DOMAIN workflows, run \in AgentRuns :
        /\ workflows[w].status = Some("RUNNING")
        /\ workflows' = [workflows EXCEPT
                            ![w].status = Some("COMPLETED"),
                            ![w].stored = Some(ResearchWorkflowRun(workflows[w].request, run))]
        /\ UNCHANGED <<patched, procVars, uuid_count, request, response, calls, submitted>>
        /\ UNCHANGED <<clientVars, runVars>>
        /\ UNCHANGED <<queueVars, routerVars>>

\* the execution closes without a result, or its status is left unspecified
EngineClose ==
    \E w \in DOMAIN workflows, st \in { Some(c) : c \in ClosedStatuses } \cup { None } :
        /\ workflows[w].status = Some("RUNNING")
        /\ workflows' = [workflows EXCEPT ![w].status = st]
        /\ UNCHANGED <<patched, procVars, uuid_count, request, response, calls, submitted>>
        /\ UNCHANGED <<clientVars, runVars>>
        /\ UNCHANGED <<queueVars, routerVars>>

(***************************************************************************)
(* Specification                                                           *)
(***************************************************************************)
NoRequest == [endpoint |-> "none", job_title |-> None, job_url |-> None, workflow_id |-> ""]
NoResponse == [endpoint |-> "none", code |-> 0, detail |-> None, body |-> None]

\* the API process before its first request, no workflow started
InitResearch ==
    /\ patched \in BOOLEAN
    /\ \E keyAt \in { "environ", "dotenv", "nowhere" }, modelSet \in BOOLEAN :
         /\ patched => (keyAt = "environ" /\ modelSet)
         /\ environ = [OPENAI_API_KEY |-> IF keyAt = "environ" THEN Some("sk-key") ELSE None,
                       OPENAI_MODEL |-> IF modelSet THEN Some("gpt-4o-mini") ELSE None]
         /\ dotenv = [OPENAI_API_KEY |-> IF keyAt = "dotenv" THEN Some("sk-key") ELSE None,
                      OPENAI_MODEL |-> None]
    /\ settings_cache = None
    /\ temporal_client = None
    /\ uuid_count = 0
    /\ workflows = [w \in {} |-> 0]
    /\ request = NoRequest
    /\ response = NoResponse
    /\ calls = << >>
    /\ submitted = << >>
    /\ clients = [p \in Requests |-> [pc |-> "idle", got |-> None]]
    /\ connections = << >>
    /\ executions = [w \in {} |-> 0]
    /\ poll_log = << >>

\* no worker process started; the worker's queue name left as the API's
QueueAtRest ==
    /\ temporal_task_queue = ApiTaskQueue
    /\ worker = None

\* privacy.py lines 9-10: both stores empty
PrivacyAtRest ==
    /\ user_data = [u \in {} |-> 0]
    /\ deletion_logs = << >>
    /\ privacy_reply = NoReply
    /\ confirmations = << >>

\* review.py lines 14-15: no link issued, no comment stored
ReviewAtRest ==
    /\ now = 0
    /\ review_links = [l \in {} |-> 0]
    /\ token_hex_count = 0
    /\ comments = << >>
    /\ added = << >>
    /\ review_reply = NoReply

\* workflow.py line 7: no editing run stored
EditsAtRest ==
    /\ workflow_states = [r \in {} |-> 0]
    /\ last_op = [r \in {} |-> 0]
    /\ edit_reply = NoReply

Init ==
    /\ InitResearch
    /\ QueueAtRest
    /\ PrivacyAtRest
    /\ ReviewAtRest
    /\ EditsAtRest

Next ==
    \/ analyze_role
    \/ get_workflow_status
    \/ EngineComplete
    \/ EngineClose

Spec == Init /\ [][Next]_vars

(***************************************************************************)
(* Submissions, the runs of their workflows, and the polls that follow     *)
(***************************************************************************)
\* bodies posted: without URL, with an empty URL, with a URL, and one the
\* schema rejects
RunInputs ==
    { [job_title |-> Some("Dev"), job_url |-> u] :
        u \in { None, Some(""), Some("https://jobs.example/1") } }
    \cup { [job_title |-> Some(""), job_url |-> None] }

SubmitResearch ==
    \E body \in RunInputs, fault \in { "none", "start_workflow" } :
        /\ ValidResearchRequest(body) => uuid_count < MaxRuns
        /\ AnalyzeRoleStep(body, fault)
        /\ UNCHANGED <<clients, runVars>>
        /\ UNCHANGED <<queueVars, routerVars>>

\* the worker executes ResearchWorkflow.run for a started workflow: the
\* execution completes with what run returns, or fails when run raises
RunWorkflow(w, outcome) ==
        /\ workflows[w].status = Some("RUNNING")
        /\ LET x == ExecuteResearchWorkflow(workflows[w].request, outcome) IN
            /\ workflows' = [workflows EXCEPT
                                ![w].status = IF x.raised = None THEN Some("COMPLETED")
                                              ELSE Some("FAILED"),
                                ![w].stored = x.returned]
            /\ executions' = [v \in DOMAIN executions \cup {w} |->
                                 IF v = w
                                 THEN [request |-> workflows[w].request,
                                       outcome |-> outcome,
                                       agent_inputs |-> x.agent_inputs,
                                       raised |-> x.raised,
                                       returned |-> x.returned]
                                 ELSE executions[v]]
        /\ UNCHANGED <<patched, procVars, uuid_count, request, response, calls, submitted>>
        /\ UNCHANGED <<clientVars, poll_log>>
        /\ UNCHANGED <<queueVars, routerVars>>

\* some worker that was handed the workflow's task runs it
WorkerRunsWorkflow ==
    \E w \in DOMAIN workflows, outcome \in AgentOutcomes : RunWorkflow(w, outcome)

\* the payload of a poll whose describe() reported COMPLETED, with the
\* endpoint of the request handled just before the poll
LoggedPoll(cs, resp, workflow_id, before) ==
    IF \E i \in DOMAIN cs : /\ cs[i].op = "describe"
                            /\ cs[i].raised = None
                            /\ cs[i].returned = Some("COMPLETED")
    THEN << [workflow_id |-> workflow_id, body |-> resp.body[1], after |-> before] >>
    ELSE << >>

PollResearch ==
    \E workflow_id \in StatusInputs, fault \in { "none", "describe", "result" } :
        /\ GetWorkflowStatusStep(workflow_id, fault)
        /\ poll_log' = poll_log \o LoggedPoll(calls', response', workflow_id,
                                              request.endpoint)
        /\ Len(poll_log') <= MaxPolls
        /\ UNCHANGED <<clients, executions>>
        /\ UNCHANGED <<queueVars, routerVars>>

\* the handlers reach the engine through the client the test suite patches in
InitRuns == Init /\ patched

\* the runs of the workflows, with every outcome of the agent
NextRuns ==
    \/ SubmitResearch
    \/ get_workflow_status
    \/ WorkerRunsWorkflow

SpecRuns == InitRuns /\ [][NextRuns]_vars

\* repeated polls of the executions, their payloads kept
NextPolls ==
    \/ SubmitResearch
    \/ PollResearch
    \/ EngineComplete

SpecPolls == InitRuns /\ [][NextPolls]_vars

(***************************************************************************)
(* The worker process and the task queue it polls                          *)
(***************************************************************************)
\* values the task-queue name is configured with
TaskQueueNames == { "research-task-queue", "talent-promo-queue" }

\* run_worker up to worker.run(): the settings are read, the client
\* connects, and the Worker polls the queue named by the settings; with a
\* Settings object that lacks an attribute read, run_worker raises instead
RunWorkerWith(fields) ==
    /\ worker = None
    /\ MissingAttribute(fields, WorkerSettingsReads) = ""
    /\ worker' = Some(temporal_task_queue)
    /\ UNCHANGED <<temporal_task_queue, researchVars, routerVars>>

run_worker == RunWorkerWith(EngineSettingsFields)

\* the engine hands a workflow task to a worker that polls the queue the
\* workflow was placed on, and the worker runs the workflow
WorkerTakesTask(w) ==
    /\ worker # None
    /\ w \in DOMAIN workflows
    /\ workflows[w].task_queue = worker[1]
    /\ \E outcome \in AgentOutcomes : RunWorkflow(w, outcome)

WorkerPollsQueue == \E w \in StatusInputs : WorkerTakesTask(w)

\* the API reaches the engine; the queue name is configured with any value
InitQueue ==
    /\ InitResearch
    /\ patched
    /\ temporal_task_queue \in TaskQueueNames
    /\ worker = None
    /\ PrivacyAtRest
    /\ ReviewAtRest
    /\ EditsAtRest

NextQueue ==
    \/ SubmitResearch
    \/ run_worker
    \/ WorkerPollsQueue
    \/ get_workflow_status

\* a worker that is started and keeps running, an engine that hands every
\* task to a worker polling its queue
FairQueue ==
    /\ WF_vars(run_worker)
    /\ \A w \in StatusInputs : WF_vars(WorkerTakesTask(w))

SpecQueue == InitQueue /\ [][NextQueue]_vars /\ FairQueue

(***************************************************************************)
(* routers/privacy.py: deletion of a user's data                           *)
(***************************************************************************)
MaxUsers == 2

\* user ids asked about: those that may be stored, and one that never is
StoredUserIds == { "user" \o ToString(i) : i \in 1..MaxUsers }
UserIds == StoredUserIds \cup { "nobody" }

\* what the store holds for a user: a dict with or without a "files" list
UserInfos ==
    { [files |-> None],
      [files |-> Some(<< >>)],
      [files |-> Some(<< "cv.pdf", "letter.docx" >>)] }

\* DeleteDataRequest bodies
DeleteInputs ==
    { [user_id |-> u, confirmation |-> c] :
        u \in UserIds, c \in { "DELETE", "delete", "" } }

\* values of datetime.utcnow().isoformat()
Timestamps == { "2025-06-01T10:00:00", "2025-06-02T09:30:00" }

\* d without the key k
Without(d, k) == [x \in DOMAIN d \ {k} |-> d[x]]

\* a delete_user_data that looks the user up before the confirmation
DeleteUserData_LooksUpFirst(req, ud, logs, at) ==
    IF req.user_id \notin DOMAIN ud
    THEN [status |-> 404, body |-> [detail |-> "User data not found"],
          user_data |-> ud, deletion_logs |-> logs]
    ELSE IF req.confirmation # "DELETE"
    THEN [status |-> 400, body |-> [detail |-> "Confirmation must be 'DELETE' to proceed"],
          user_data |-> ud, deletion_logs |-> logs]
    ELSE LET user_info == ud[req.user_id]
             deleted_files == IF user_info.files = None THEN << >> ELSE user_info.files[1]
             logs2 == Append(logs, [user_id |-> req.user_id,
                                    deleted_at |-> at,
                                    files_deleted |-> Len(deleted_files),
                                    confirmed |-> TRUE])
         IN [status |-> 200,
             body |-> [success |-> TRUE,
                       message |-> "All user data deleted successfully",
                       files_deleted |-> Len(deleted_files),
                       confirmation_id |-> "del_" \o ToString(Len(logs2))],
             user_data |-> Without(ud, req.user_id),
             deletion_logs |-> logs2]

\* a delete_user_data that numbers its confirmation by the files deleted
DeleteUserData_NumbersByFiles(req, ud, logs, at) ==
    IF req.confirmation # "DELETE"
    THEN [status |-> 400, body |-> [detail |-> "Confirmation must be 'DELETE' to proceed"],
          user_data |-> ud, deletion_logs |-> logs]
    ELSE IF req.user_id \notin DOMAIN ud
    THEN [status |-> 404, body |-> [detail |-> "User data not found"],
          user_data |-> ud, deletion_logs |-> logs]
    ELSE LET user_info == ud[req.user_id]
             deleted_files == IF user_info.files = None THEN << >> ELSE user_info.files[1]
             logs2 == Append(logs, [user_id |-> req.user_id,
                                    deleted_at |-> at,
                                    files_deleted |-> Len(deleted_files),
                                    confirmed |-> TRUE])
         IN [status |-> 200,
             body |-> [success |-> TRUE,
                       message |-> "All user data deleted successfully",
                       files_deleted |-> Len(deleted_files),
                       confirmation_id |-> "del_" \o ToString(Len(deleted_files))],
             user_data |-> Without(ud, req.user_id),
             deletion_logs |-> logs2]

\* delete_user_data: the answer, and the two stores after it
DeleteUserData(req, ud, logs, at) ==
    IF req.confirmation # "DELETE"
    THEN [status |-> 400, body |-> [detail |-> "Confirmation must be 'DELETE' to proceed"],
          user_data |-> ud, deletion_logs |-> logs]
    ELSE IF req.user_id \notin DOMAIN ud
    THEN [status |-> 404, body |-> [detail |-> "User data not found"],
          user_data |-> ud, deletion_logs |-> logs]
    ELSE LET user_info == ud[req.user_id]
             \* user_info.get("files", [])
             deleted_files == IF user_info.files = None THEN << >> ELSE user_info.files[1]
             logs2 == Append(logs, [user_id |-> req.user_id,
                                    deleted_at |-> at,
                                    files_deleted |-> Len(deleted_files),
                                    confirmed |-> TRUE])
         IN [status |-> 200,
             body |-> [success |-> TRUE,
                       message |-> "All user data deleted successfully",
                       files_deleted |-> Len(deleted_files),
                       confirmation_id |-> "del_" \o ToString(Len(logs2))],
             user_data |-> Without(ud, req.user_id),
             deletion_logs |-> logs2]

delete_user_data ==
    \E req \in DeleteInputs, at \in Timestamps :
        LET r == DeleteUserData(req, user_data, deletion_logs, at) IN
            /\ user_data' = r.user_data
            /\ deletion_logs' = r.deletion_logs
            /\ privacy_reply' = [op |-> "delete_user_data", request |-> req,
                                 status |-> r.status, body |-> r.body]
            /\ confirmations' = IF r.status = 200
                                 THEN Append(confirmations, r.body.confirmation_id)
                                 ELSE confirmations
            /\ UNCHANGED <<researchVars, queueVars, reviewVars, editVars>>

\* the first record of the log that names the user, if any
RECURSIVE FirstLogOf(_, _)
FirstLogOf(logs, user_id) ==
    IF logs = << >> THEN None
    ELSE IF Head(logs).user_id = user_id THEN Some(Head(logs))
    ELSE FirstLogOf(Tail(logs), user_id)

\* get_deletion_status: the body answered
GetDeletionStatus(user_id, ud, logs) ==
    LET log == FirstLogOf(logs, user_id) IN
    IF log # None
    THEN [deleted |-> TRUE,
          deleted_at |-> Some(log[1].deleted_at),
          files_deleted |-> Some(log[1].files_deleted),
          data_exists |-> None,
          message |-> None]
    ELSE IF user_id \in DOMAIN ud
    THEN [deleted |-> FALSE, deleted_at |-> None, files_deleted |-> None,
          data_exists |-> Some(TRUE), message |-> None]
    ELSE [deleted |-> FALSE, deleted_at |-> None, files_deleted |-> None,
          data_exists |-> Some(FALSE), message |-> Some("No data found for this user")]

get_deletion_status ==
    \E user_id \in UserIds :
        /\ privacy_reply' = [op |-> "get_deletion_status",
                             request |-> [user_id |-> user_id],
                             status |-> 200,
                             body |-> GetDeletionStatus(user_id, user_data, deletion_logs)]
        /\ UNCHANGED <<user_data, deletion_logs, confirmations>>
        /\ UNCHANGED <<researchVars, queueVars, reviewVars, editVars>>

\* the store as the router finds it: nothing in the router writes user_data,
\* so what it holds was put there from outside, for any of the users (the
\* configuration of the research API plays no part: one of its initial
\* states is taken)
InitPrivacy ==
    /\ InitResearch
    /\ patched
    /\ QueueAtRest
    /\ ReviewAtRest
    /\ EditsAtRest
    /\ \E stored \in SUBSET StoredUserIds : user_data \in [stored -> UserInfos]
    /\ deletion_logs = << >>
    /\ privacy_reply = NoReply
    /\ confirmations = << >>

NextPrivacy ==
    \/ delete_user_data
    \/ get_deletion_status

SpecPrivacy == InitPrivacy /\ [][NextPrivacy]_vars

(***************************************************************************)
(* routers/review.py: review links and the comments made through them      *)
(***************************************************************************)
MaxClock == 1
MaxComments == 2

Documents == { "docA", "docB" }

\* CreateReviewLinkRequest bodies: expiry_hours is any int, 0 included
CreateLinkInputs ==
    { [document_id |-> d, reviewer_email |-> "rev@example.com", expiry_hours |-> h] :
        d \in Documents, h \in { 0, 1 } }

\* AddCommentRequest bodies
AddCommentInputs == { [target_path |-> "experience[0]", comment_text |-> "shorten"] }

\* the n-th value of secrets.token_hex(8)
TokenHex(n) == "hex" \o ToString(n)

\* create_signed_token: the claims, signed with SECRET_KEY, expiring
\* expiry_hours after the clock
CreateSignedToken(document_id, reviewer_email, expiry_hours, clock) ==
    [signed_with |-> "SECRET_KEY",
     document_id |-> document_id,
     reviewer_email |-> reviewer_email,
     exp |-> clock + expiry_hours,
     type |-> "review_access"]

\* tokens this process did not sign: same claims under another key (a
\* string that is no token at all is refused the same way)
ForgedTokens ==
    { [signed_with |-> "another key", document_id |-> "docA",
       reviewer_email |-> "rev@example.com", exp |-> MaxClock + 2,
       type |-> "review_access"] }

\* a verify_token that does not look at the expiry time
VerifyToken_IgnoresExpiry(token, clock) ==
    IF token.signed_with # "SECRET_KEY"
    THEN [raised |-> Some([status |-> 403, detail |-> "Invalid review link"]),
          payload |-> None]
    ELSE [raised |-> None, payload |-> Some(token)]

\* verify_token: jwt.decode checks the signature, then the expiry time
VerifyToken(token, clock) ==
    IF token.signed_with # "SECRET_KEY"
    THEN [raised |-> Some([status |-> 403, detail |-> "Invalid review link"]),
          payload |-> None]
    ELSE IF token.exp <= clock
    THEN [raised |-> Some([status |-> 403, detail |-> "Review link has expired"]),
          payload |-> None]
    ELSE [raised |-> None, payload |-> Some(token)]

\* the tokens create_review_link has handed out
IssuedTokens == { review_links[l].token : l \in DOMAIN review_links }

\* tokens a caller may present
TokenInputs == IssuedTokens \cup ForgedTokens

\* each document is shared once
create_review_link ==
    \E req \in CreateLinkInputs :
        /\ \A l \in DOMAIN review_links : review_links[l].document_id # req.document_id
        /\ LET token == CreateSignedToken(req.document_id, req.reviewer_email,
                                          req.expiry_hours, now)
               link_id == "link_" \o TokenHex(token_hex_count + 1)
               link == [document_id |-> req.document_id,
                        reviewer_email |-> req.reviewer_email,
                        created_at |-> now,
                        expires_at |-> now + req.expiry_hours,
                        token |-> token]
           IN
            /\ token_hex_count' = token_hex_count + 1
            /\ review_links' = [l \in DOMAIN review_links \cup {link_id} |->
                                   IF l = link_id THEN link ELSE review_links[l]]
            /\ review_reply' = [op |-> "create_review_link", request |-> req,
                                status |-> 200,
                                body |-> [link_id |-> link_id,
                                          review_url |-> token,
                                          expires_at |-> link.expires_at]]
        /\ UNCHANGED <<now, comments, added>>
        /\ UNCHANGED <<researchVars, queueVars, privacyVars, editVars>>

\* positions of the store's entries for a document (none or one)
DocEntries(store, document_id) ==
    { i \in DOMAIN store : store[i].document_id = document_id }

\* comments.get(document_id, [])
CommentsOf(store, document_id) ==
    IF DocEntries(store, document_id) = {} THEN << >>
    ELSE store[CHOOSE i \in DocEntries(store, document_id) : TRUE].comments

\* the store after `if document_id not in comments: comments[document_id] = []`
\* and `comments[document_id].append(comment)`
StoreComment(store, document_id, comment) ==
    LET withDoc == IF DocEntries(store, document_id) = {}
                   THEN Append(store, [document_id |-> document_id, comments |-> << >>])
                   ELSE store
    IN [i \in DOMAIN withDoc |->
           IF withDoc[i].document_id = document_id
           THEN [withDoc[i] EXCEPT !.comments = Append(@, comment)]
           ELSE withDoc[i]]

\* add_comment: what it raises, the comment it makes, and the store after it
AddCommentWith(v, req, store, hex, clock) ==
    IF v.raised # None
    THEN [status |-> v.raised[1].status, body |-> [detail |-> v.raised[1].detail],
          comments |-> store, made |-> << >>]
    ELSE LET document_id == v.payload[1].document_id
             comment == [id |-> "comment_" \o hex,
                         document_id |-> document_id,
                         target_path |-> req.target_path,
                         comment_text |-> req.comment_text,
                         reviewer_email |-> v.payload[1].reviewer_email,
                         created_at |-> clock,
                         resolved |-> FALSE]
         IN [status |-> 200,
             body |-> [success |-> TRUE, comment_id |-> comment.id,
                       message |-> "Comment added successfully"],
             comments |-> StoreComment(store, document_id, comment),
             made |-> << comment >>]

AddComment(token, req, store, hex, clock) ==
    AddCommentWith(VerifyToken(token, clock), req, store, hex, clock)

add_comment ==
    \E token \in TokenInputs, req \in AddCommentInputs :
        LET r == AddComment(token, req, comments, TokenHex(token_hex_count + 1), now) IN
            /\ r.status = 200 => Len(added) < MaxComments
            /\ comments' = r.comments
            /\ added' = added \o r.made
            /\ token_hex_count' = IF r.status = 200 THEN token_hex_count + 1
                                   ELSE token_hex_count
            /\ review_reply' = [op |-> "add_comment",
                                request |-> [token |-> token, body |-> req],
                                status |-> r.status, body |-> r.body]
            /\ UNCHANGED <<now, review_links>>
            /\ UNCHANGED <<researchVars, queueVars, privacyVars, editVars>>

\* get_comments: the body answered
GetComments(document_id, store) ==
    LET doc_comments == CommentsOf(store, document_id) IN
    [document_id |-> document_id, comments |-> doc_comments, count |-> Len(doc_comments)]

get_comments ==
    \E document_id \in Documents :
        /\ review_reply' = [op |-> "get_comments", request |-> document_id,
                            status |-> 200, body |-> GetComments(document_id, comments)]
        /\ UNCHANGED <<now, review_links, token_hex_count, comments, added>>
        /\ UNCHANGED <<researchVars, queueVars, privacyVars, editVars>>

\* the places <<document, comment>> of the store, in the order the two
\* loops of resolve_comment visit them
RECURSIVE Places(_, _, _)
Places(store, i, j) ==
    IF i > Len(store) THEN << >>
    ELSE IF j > Len(store[i].comments) THEN Places(store, i + 1, 1)
    ELSE << <<i, j>> >> \o Places(store, i, j + 1)

\* the first place whose comment has the id, if any
RECURSIVE FirstPlace(_, _, _)
FirstPlace(store, places, comment_id) ==
    IF places = << >> THEN None
    ELSE IF store[Head(places)[1]].comments[Head(places)[2]].id = comment_id
    THEN Some(Head(places))
    ELSE FirstPlace(store, Tail(places), comment_id)

\* a resolve_comment that marks every comment of the document
ResolveComment_WholeDocument(comment_id, store) ==
    LET at == FirstPlace(store, Places(store, 1, 1), comment_id) IN
    IF at = None
    THEN [status |-> 404, body |-> [detail |-> "Comment not found"], comments |-> store]
    ELSE [status |-> 200,
          body |-> [success |-> TRUE, comment_id |-> comment_id,
                    message |-> "Comment resolved"],
          comments |-> [i \in DOMAIN store |->
                           IF i = at[1][1]
                           THEN [store[i] EXCEPT !.comments =
                                    [j \in DOMAIN @ |-> [@[j] EXCEPT !.resolved = TRUE]]]
                           ELSE store[i]]]

\* resolve_comment: the answer and the store after it
ResolveComment(comment_id, store) ==
    LET at == FirstPlace(store, Places(store, 1, 1), comment_id) IN
    IF at = None
    THEN [status |-> 404, body |-> [detail |-> "Comment not found"], comments |-> store]
    ELSE [status |-> 200,
          body |-> [success |-> TRUE, comment_id |-> comment_id,
                    message |-> "Comment resolved"],
          comments |-> [store EXCEPT ![at[1][1]].comments[at[1][2]].resolved = TRUE]]

\* ids a caller may ask to resolve: those handed out, and one that was not
CommentIdInputs ==
    { added[i].id : i \in DOMAIN added } \cup { "comment_unknown" }

resolve_comment ==
    \E comment_id \in CommentIdInputs :
        LET r == ResolveComment(comment_id, comments) IN
            /\ comments' = r.comments
            /\ review_reply' = [op |-> "resolve_comment", request |-> comment_id,
                                status |-> r.status, body |-> r.body]
            /\ UNCHANGED <<now, review_links, token_hex_count, added>>
            /\ UNCHANGED <<researchVars, queueVars, privacyVars, editVars>>

\* an hour passes
ClockTick ==
    /\ now < MaxClock
    /\ now' = now + 1
    /\ UNCHANGED <<review_links, token_hex_count, comments, added, review_reply>>
    /\ UNCHANGED <<researchVars, queueVars, privacyVars, editVars>>

NextReview ==
    \/ create_review_link
    \/ add_comment
    \/ get_comments
    \/ resolve_comment
    \/ ClockTick

\* the router alone: the configuration of the research API plays no part
\* in it, and one of its initial states is taken
InitRouters == Init /\ patched

SpecReview == InitRouters /\ [][NextReview]_vars

(***************************************************************************)
(* routers/workflow.py: the editing runs                                   *)
(***************************************************************************)
MaxItems == 2

RunIds == { "run1", "run2" }

\* SubmitEditsRequest.edits and ResolveSuggestionsRequest.suggestion_ids
EditLists == { << >>, << "edit" >> }
SuggestionLists == { << >>, << "s1" >> }

RunNotFound == [status |-> 404, body |-> [detail |-> "Workflow run not found"]]

\* a submit_edits that leaves the run it creates as it creates it
SubmitEdits_KeepsStatus(run_id, edits, states) ==
    LET created == IF run_id \notin DOMAIN states
                   THEN [r \in DOMAIN states \cup {run_id} |->
                            IF r = run_id
                            THEN [status |-> "waiting", edits |-> << >>,
                                  suggestions_resolved |-> << >>]
                            ELSE states[r]]
                   ELSE states
    IN [status |-> 200,
        body |-> [success |-> TRUE, run_id |-> run_id, status |-> "validating",
                  message |-> "Edits submitted for validation"],
        workflow_states |-> [created EXCEPT ![run_id].edits = @ \o edits]]

\* submit_edits: the run is created if unknown, the edits are stored, the
\* status is set
SubmitEdits(run_id, edits, states) ==
    LET created == IF run_id \notin DOMAIN states
                   THEN [r \in DOMAIN states \cup {run_id} |->
                            IF r = run_id
                            THEN [status |-> "waiting", edits |-> << >>,
                                  suggestions_resolved |-> << >>]
                            ELSE states[r]]
                   ELSE states
    IN [status |-> 200,
        body |-> [success |-> TRUE, run_id |-> run_id, status |-> "validating",
                  message |-> "Edits submitted for validation"],
        workflow_states |-> [created EXCEPT ![run_id].edits = @ \o edits,
                                            ![run_id].status = "validating"]]

ResolveSuggestions(run_id, suggestion_ids, states) ==
    IF run_id \notin DOMAIN states
    THEN [status |-> RunNotFound.status, body |-> RunNotFound.body,
          workflow_states |-> states]
    ELSE [status |-> 200,
          body |-> [success |-> TRUE, run_id |-> run_id,
                    resolved_count |-> Len(suggestion_ids),
                    message |-> "Suggestions resolved"],
          workflow_states |->
              [states EXCEPT ![run_id].suggestions_resolved = @ \o suggestion_ids,
                             ![run_id].status = "processing"]]

Approve(run_id, states) ==
    IF run_id \notin DOMAIN states
    THEN [status |-> RunNotFound.status, body |-> RunNotFound.body,
          workflow_states |-> states]
    ELSE [status |-> 200,
          body |-> [success |-> TRUE, run_id |-> run_id, status |-> "approved",
                    message |-> "Document approved and exported"],
          workflow_states |-> [states EXCEPT ![run_id].status = "approved"]]

\* get_workflow_status of routers/workflow.py
RunStatus(run_id, states) ==
    IF run_id \notin DOMAIN states
    THEN [status |-> RunNotFound.status, body |-> RunNotFound.body]
    ELSE [status |-> 200,
          body |-> [run_id |-> run_id,
                    status |-> states[run_id].status,
                    edits_count |-> Len(states[run_id].edits),
                    suggestions_resolved |-> Len(states[run_id].suggestions_resolved)]]

\* the answer is recorded, and the operation if it was carried out
EditAnswer(op, run_id, r) ==
    /\ edit_reply' = [op |-> op, run_id |-> run_id, status |-> r.status, body |-> r.body]
    /\ workflow_states' = r.workflow_states
    /\ last_op' = IF r.status = 200
                   THEN [x \in DOMAIN last_op \cup {run_id} |->
                            IF x = run_id THEN op ELSE last_op[x]]
                   ELSE last_op
    /\ UNCHANGED <<researchVars, queueVars, privacyVars, reviewVars>>

\* the lists of a run are kept within MaxItems
Room(run_id, field, items) ==
    run_id \in DOMAIN workflow_states =>
        Len(workflow_states[run_id][field]) + Len(items) <= MaxItems

submit_edits ==
    \E run_id \in RunIds, edits \in EditLists :
        /\ Room(run_id, "edits", edits)
        /\ EditAnswer("submit_edits", run_id, SubmitEdits(run_id, edits, workflow_states))

resolve_suggestions ==
    \E run_id \in RunIds, suggestion_ids \in SuggestionLists :
        /\ Room(run_id, "suggestions_resolved", suggestion_ids)
        /\ EditAnswer("resolve_suggestions", run_id,
                      ResolveSuggestions(run_id, suggestion_ids, workflow_states))

approve ==
    \E run_id \in RunIds :
        EditAnswer("approve", run_id, Approve(run_id, workflow_states))

\* GET /api/workflow/status/{run_id}
get_run_status ==
    \E run_id \in RunIds :
        LET r == RunStatus(run_id, workflow_states) IN
            /\ edit_reply' = [op |-> "get_workflow_status", run_id |-> run_id,
                              status |-> r.status, body |-> r.body]
            /\ UNCHANGED <<workflow_states, last_op>>
            /\ UNCHANGED <<researchVars, queueVars, privacyVars, reviewVars>>

NextEdits ==
    \/ submit_edits
    \/ resolve_suggestions
    \/ approve
    \/ get_run_status

SpecEdits == InitRouters /\ [][NextEdits]_vars

(***************************************************************************)
(* Properties                                                              *)
(***************************************************************************)
\* positions in calls of the calls to op
CallsTo(op) == { i \in DOMAIN calls : calls[i].op = op }

\* the handler's call to op returned / raised
Returned(op) == \E i \in CallsTo(op) : calls[i].raised = None
Raised(op) == \E i \in CallsTo(op) : calls[i].raised # None

\* sub occurs in s
StrContains(s, sub) ==
    \E i \in 1..(Len(s) - Len(sub) + 1) : SubSeq(s, i, i + Len(sub) - 1) = sub

\* the submission handled last is a valid one
ValidSubmission ==
    /\ request.endpoint = "analyze"
    /\ request.job_title # None
    /\ Len(request.job_title[1]) \in 1..50
    /\ (request.job_url = None \/ Len(request.job_url[1]) <= 1000)

\* the status description the last poll obtained
Described(status) ==
    /\ request.endpoint = "status"
    /\ \E i \in CallsTo("describe") : calls[i].raised = None /\ calls[i].returned = status

\* C1: a valid submission whose start call the engine accepts makes exactly
\* one start_workflow call, under "research-" + request_id, and is answered
\* 200 with status "running", that workflow id and the request's job_title
\* and job_url unchanged; the handler makes no call that waits for the
\* workflow (no describe, no result), so the answer does not depend on the
\* workflow having finished.
C1_AcceptedSubmissionAnsweredRunning ==
    (ValidSubmission /\ Returned("start_workflow")) =>
        /\ response.endpoint = "analyze"
        /\ response.code = 200
        /\ response.body # None
        /\ LET b == response.body[1] IN
            /\ b.status = "running"
            /\ b.workflow_id = "research-" \o b.request_id
            /\ b.job_title = request.job_title[1]
            /\ b.job_url = request.job_url
            /\ Cardinality(CallsTo("start_workflow")) = 1
            /\ \A i \in CallsTo("start_workflow") : calls[i].id = "research-" \o b.request_id
            /\ Known(workflows, "research-" \o b.request_id)
        /\ CallsTo("describe") = {}
        /\ CallsTo("result") = {}

\* a submission without URL answered "running" while its workflow is still
\* RUNNING in the engine
C1_Witness ==
    /\ ValidSubmission /\ Returned("start_workflow")
    /\ request.job_url = None
    /\ response.code = 200
    /\ response.body[1].job_url = None
    /\ workflows[response.body[1].workflow_id].status = Some("RUNNING")

\* C2: a submission whose job_title is missing, empty or longer than 50
\* characters, or whose job_url is longer than 1000 characters, is answered
\* 422 and the handler makes no client or engine call at all.
C2_InvalidSubmissionRejected ==
    ( /\ request.endpoint = "analyze"
      /\ \/ request.job_title = None
         \/ Len(request.job_title[1]) = 0
         \/ Len(request.job_title[1]) > 50
         \/ (request.job_url # None /\ Len(request.job_url[1]) > 1000) )
    => /\ response.code = 422
       /\ response.body = None
       /\ calls = << >>

\* a 51-character title was rejected after an earlier submission had started
\* a workflow
C2_Witness ==
    /\ request.endpoint = "analyze"
    /\ request.job_title # None
    /\ Len(request.job_title[1]) = 51
    /\ response.code = 422
    /\ Len(submitted) = 1
    /\ DOMAIN workflows # {}

\* C3: a poll that found the engine status COMPLETED and fetched the result
\* is answered 200 with status "completed", the stored ResearchResult and
\* usage, job_title and job_url of the stored workflow result, and no error.
C3_CompletedPollRelaysStoredResult ==
    (Described(Some("COMPLETED")) /\ Returned("result")) =>
        /\ response.code = 200
        /\ response.body # None
        /\ LET b == response.body[1]
               stored == workflows[request.workflow_id].stored[1]
           IN  /\ b.status = "completed"
               /\ b.result = Some(stored.result)
               /\ b.usage = Some(stored.usage)
               /\ b.job_title = stored.job_title
               /\ b.job_url = stored.job_url
               /\ b.error = None

\* a completed poll that relays a result with a job URL and non-zero usage
C3_Witness ==
    /\ Described(Some("COMPLETED")) /\ Returned("result")
    /\ response.code = 200
    /\ response.body[1].job_url # None
    /\ response.body[1].usage[1].total_tokens > 0
    /\ response.body[1].result # None

\* C4: a poll that found the engine status RUNNING is answered 200 with
\* status "running", no result, no usage and no error, and the handler does
\* not call result().
C4_RunningPollDoesNotFetch ==
    Described(Some("RUNNING")) =>
        /\ response.code = 200
        /\ response.body # None
        /\ response.body[1].status = "running"
        /\ response.body[1].result = None
        /\ response.body[1].usage = None
        /\ response.body[1].error = None
        /\ CallsTo("result") = {}

\* a poll answered "running" for a workflow this process submitted
C4_Witness ==
    /\ Described(Some("RUNNING"))
    /\ response.code = 200
    /\ response.body[1].status = "running"
    /\ \E i \in DOMAIN submitted : submitted[i].workflow_id = request.workflow_id

\* C5: a poll that found the engine status COMPLETED but whose result()
\* call raised is still answered 200 with status "completed", no result, no
\* usage, and an error "Failed to retrieve result: " followed by the
\* exception text.
C5_FetchFailureIsDegradedCompleted ==
    (Described(Some("COMPLETED")) /\ Raised("result")) =>
        /\ response.code = 200
        /\ response.body # None
        /\ response.body[1].status = "completed"
        /\ response.body[1].result = None
        /\ response.body[1].usage = None
        /\ response.body[1].error # None
        /\ \A i \in CallsTo("result") :
              response.body[1].error[1] = "Failed to retrieve result: " \o calls[i].raised[1]

\* the degraded answer for a workflow whose result the engine does hold
C5_Witness ==
    /\ Described(Some("COMPLETED")) /\ Raised("result")
    /\ response.code = 200
    /\ response.body[1].error = Some("Failed to retrieve result: result unavailable")
    /\ workflows[request.workflow_id].stored # None

\* C6: a poll that found any engine status other than RUNNING and COMPLETED
\* (a missing status counts as UNKNOWN) is answered 200 with status
\* "failed", no result, and an error that contains the status name; and no
\* status answer ever carries a status other than running, completed, failed.
C6_OtherStatusesAreFailed ==
    /\ \A i \in CallsTo("describe") :
          ( /\ request.endpoint = "status"
            /\ calls[i].raised = None
            /\ calls[i].returned \notin { Some("RUNNING"), Some("COMPLETED") } )
          => /\ response.code = 200
             /\ response.body # None
             /\ response.body[1].status = "failed"
             /\ response.body[1].result = None
             /\ response.body[1].error # None
             /\ StrContains(response.body[1].error[1],
                            IF calls[i].returned = None THEN "UNKNOWN"
                            ELSE calls[i].returned[1])
    /\ (response.endpoint = "status" /\ response.body # None)
          => response.body[1].status \in { "running", "completed", "failed" }

\* a poll of a workflow whose description carries no status
C6_Witness ==
    /\ Described(None)
    /\ response.code = 200
    /\ response.body[1].status = "failed"
    /\ response.body[1].error = Some("Workflow status: UNKNOWN")

\* C7: a poll of a workflow id the engine does not hold is answered 404.
C7_UnknownIdNotFound ==
    (request.endpoint = "status" /\ ~Known(workflows, request.workflow_id))
        => /\ response.code = 404
           /\ response.body = None

\* the engine itself reported the id unknown, after a submission had succeeded
C7_Witness ==
    /\ request.endpoint = "status"
    /\ request.workflow_id = "nonexistent-id"
    /\ ~Known(workflows, request.workflow_id)
    /\ Raised("describe")
    /\ response.code = 404
    /\ Len(submitted) >= 1

\* an engine call that failed because the engine could not be reached
Unreachable(call) ==
    /\ call.op \in { "Client.connect", "start_workflow", "describe", "result" }
    /\ call.raised \in { Some("Failed client connect"), Some("engine unavailable"),
                         Some("result unavailable") }

\* C8 as stated: whenever a connect, start, describe or result call fails
\* because the engine is unreachable, the answer is 500 and carries the
\* exception text, in either endpoint.
C8_AsStated ==
    \A i \in DOMAIN calls :
        Unreachable(calls[i]) =>
            /\ response.code = 500
            /\ response.detail # None
            /\ StrContains(response.detail[1], calls[i].raised[1])

\* C8 (amended): every failure of a client or engine call reaches the caller
\* with the exception text, but only the submission endpoint answers 500; the
\* status endpoint answers 404 when obtaining the client or describe fails,
\* and 200 "completed" with the text in the error field when result() fails.
C8_FailuresSurfacedPerEndpoint ==
    \A i \in DOMAIN calls :
        calls[i].raised # None =>
            LET e == calls[i].raised[1] IN
            IF request.endpoint = "analyze"
            THEN /\ response.code = 500
                 /\ response.detail = Some("Failed to start research workflow: " \o e)
            ELSE IF calls[i].op = "result"
            THEN /\ response.code = 200
                 /\ response.body # None
                 /\ response.body[1].status = "completed"
                 /\ response.body[1].error = Some("Failed to retrieve result: " \o e)
            ELSE /\ response.code = 404
                 /\ response.detail = Some("Workflow not found or error: " \o e)

\* the engine could not be reached while describing a workflow it holds
C8_Witness ==
    /\ request.endpoint = "status"
    /\ Known(workflows, request.workflow_id)
    /\ \E i \in CallsTo("describe") : calls[i].raised = Some("engine unavailable")
    /\ response.code = 404
    /\ response.detail = Some("Workflow not found or error: engine unavailable")

\* a step in which analyze_role ran its body and one of its calls raised
FailedSubmissionStep ==
    /\ uuid_count' = uuid_count + 1
    /\ \E i \in DOMAIN calls' : calls'[i].raised # None

C10_SubmissionIdsDistinct ==
    \A i, j \in DOMAIN submitted :
        i # j => /\ submitted[i].request_id # submitted[j].request_id
                 /\ submitted[i].workflow_id # submitted[j].workflow_id

\* two submissions were answered "running"
C10_Witness ==
    /\ Len(submitted) >= 2
    /\ \A i \in DOMAIN submitted : Known(workflows, submitted[i].workflow_id)

(***************************************************************************)
(* get_temporal_client one await at a time, for several requests           *)
(***************************************************************************)
InFlight(p) == clients[p].pc = "connecting"

\* request p calls get_temporal_client and runs to the await of
\* Client.connect, or to its return or raise when it does not get there
ClientCall(p) ==
    /\ clients[p].pc = "idle"
    /\ IF ~NeedsConnect(temporal_client)
       THEN /\ clients' = [clients EXCEPT ![p] = [pc |-> "returned", got |-> temporal_client]]
            /\ UNCHANGED <<settings_cache, environ>>
       ELSE LET s == ClientSetup(EngineSettingsFields, settings_cache, environ, dotenv) IN
            /\ settings_cache' = s.settings_cache
            /\ environ' = s.environ
            /\ clients' = [clients EXCEPT ![p] =
                              [pc |-> IF s.raised # None THEN "raised" ELSE "connecting",
                               got |-> None]]
    /\ UNCHANGED <<temporal_client, connections>>
    /\ UNCHANGED <<patched, dotenv, uuid_count, workflows, request, response, calls,
                   submitted, runVars>>
    /\ UNCHANGED <<queueVars, routerVars>>

\* any request may enter while others are suspended
ClientEnters == \E p \in Requests : ClientCall(p)

\* requests handled one after another: none enters while one is suspended
ClientEntersInTurn ==
    \E p \in Requests : (\A q \in Requests : ~InFlight(q)) /\ ClientCall(p)

\* Client.connect returns to request p: the global is assigned and returned
ClientConnects ==
    \E p \in Requests :
        /\ InFlight(p)
        /\ LET name == ConnectionName(Len(connections) + 1) IN
            /\ connections' = Append(connections, name)
            /\ temporal_client' = Some(name)
            /\ clients' = [clients EXCEPT ![p] = [pc |-> "returned", got |-> Some(name)]]
        /\ UNCHANGED <<patched, dotenv, environ, settings_cache, uuid_count, workflows,
                       request, response, calls, submitted, runVars>>
        /\ UNCHANGED <<queueVars, routerVars>>

\* Client.connect raises in request p: nothing is assigned
ClientConnectFails ==
    \E p \in Requests :
        /\ InFlight(p)
        /\ clients' = [clients EXCEPT ![p] = [pc |-> "raised", got |-> None]]
        /\ UNCHANGED <<patched, procVars, connections, uuid_count, workflows,
                       request, response, calls, submitted, runVars>>
        /\ UNCHANGED <<queueVars, routerVars>>

\* the function itself runs, not the stub of the test suite
InitClients == Init /\ ~patched

NextClients ==
    \/ ClientEnters
    \/ ClientConnects
    \/ ClientConnectFails

SpecClients == InitClients /\ [][NextClients]_vars

NextClientsInTurn ==
    \/ ClientEntersInTurn
    \/ ClientConnects
    \/ ClientConnectFails

SpecClientsInTurn == InitClients /\ [][NextClientsInTurn]_vars

\* the fields of a status payload the caller compares
Payload(body) ==
    [status |-> body.status, result |-> body.result,
     usage |-> body.usage, error |-> body.error]

\* two kept polls of the same completed execution
SameCompleted(i, j) ==
    /\ i \in DOMAIN poll_log
    /\ j \in DOMAIN poll_log
    /\ poll_log[i].workflow_id = poll_log[j].workflow_id

PollStep ==
    /\ request'.endpoint = "status"
    /\ \/ request' # request
       \/ response' # response
       \/ calls' # calls
       \/ environ' # environ
       \/ settings_cache' # settings_cache
       \/ temporal_client' # temporal_client

Entered(p) == clients[p].pc = "idle" /\ clients'[p].pc # "idle"

ListsWithinLimits(o) ==
    /\ Len(o.requirements) \in 1..15
    /\ Len(o.skills) \in 1..15

\* what holds of every workflow and its run
RunIsOnceAndWhole(w) ==
    /\ workflows[w].status \in { Some("RUNNING"), Some("COMPLETED"), Some("FAILED") }
    /\ (workflows[w].status = Some("RUNNING")) <=> (w \notin DOMAIN executions)
    /\ (w \in DOMAIN executions) =>
          LET x == executions[w]
              failing == x.outcome.raised # None \/ ~ListsWithinLimits(x.outcome.final_output)
          IN  /\ Len(x.agent_inputs) = 1
              /\ failing =>
                    /\ workflows[w].status = Some("FAILED")
                    /\ x.raised # None
                    /\ x.returned = None
                    /\ workflows[w].stored = None
              /\ ~failing =>
                    /\ workflows[w].status = Some("COMPLETED")
                    /\ x.raised = None
                    /\ workflows[w].stored # None
                    /\ workflows[w].stored = x.returned
                    /\ workflows[w].stored[1].job_title = workflows[w].request.job_title
                    /\ workflows[w].stored[1].job_url = workflows[w].request.job_url
                    /\ workflows[w].stored[1].result = x.outcome.final_output

\* C15: a workflow is executing until its run ends and terminal from then
\* on; the run has invoked the agent exactly once; a run in which nothing
\* raised completed with a result that carries the request's job_title and
\* job_url unchanged; a run in which the agent raised or its output was
\* rejected failed and left no result; and a terminal workflow never changes.
C15_RunOnceThenTerminal ==
    [][ /\ \A w \in DOMAIN workflows' : RunIsOnceAndWhole(w)'
        /\ \A w \in DOMAIN workflows :
              workflows[w].status # Some("RUNNING") =>
                  /\ workflows'[w] = workflows[w]
                  /\ executions'[w] = executions[w] ]_vars

\* a run whose agent call raised: the workflow failed without a result,
\* and a poll was answered "failed"
C15_Witness ==
    /\ request.endpoint = "status"
    /\ request.workflow_id \in DOMAIN executions
    /\ executions[request.workflow_id].outcome.raised = Some("model call timed out")
    /\ Len(executions[request.workflow_id].agent_inputs) = 1
    /\ workflows[request.workflow_id].status = Some("FAILED")
    /\ workflows[request.workflow_id].stored = None
    /\ response.code = 200
    /\ response.body[1].status = "failed"
\* the sum of a usage field over the first n model responses, those without
\* usage counting 0
RECURSIVE Reported(_, _, _)
Reported(raw_responses, field, n) ==
    IF n = 0 THEN 0
    ELSE Reported(raw_responses, field, n - 1)
         + (IF raw_responses[n] = None THEN 0 ELSE raw_responses[n][1][field])

\* C16: the usage of every completed workflow result has total_tokens =
\* prompt_tokens + completion_tokens, prompt_tokens the sum of input_tokens
\* and completion_tokens the sum of output_tokens over the model responses
\* of its run that report usage; a run without model responses has 0/0/0.
C16_UsageTotals ==
    \A w \in DOMAIN executions :
        workflows[w].stored # None =>
            LET usage == workflows[w].stored[1].usage
                rr == executions[w].outcome.raw_responses
            IN  /\ usage.total_tokens = usage.prompt_tokens + usage.completion_tokens
                /\ usage.prompt_tokens = Reported(rr, "input_tokens", Len(rr))
                /\ usage.completion_tokens = Reported(rr, "output_tokens", Len(rr))
                /\ (rr = << >>) =>
                      usage = [prompt_tokens |-> 0, completion_tokens |-> 0,
                               total_tokens |-> 0]

\* a completed run one of whose two model responses reported no usage,
\* relayed by a poll with the counters 100/150/250
C16_Witness ==
    /\ request.endpoint = "status"
    /\ request.workflow_id \in DOMAIN executions
    /\ Len(executions[request.workflow_id].outcome.raw_responses) = 2
    /\ executions[request.workflow_id].outcome.raw_responses[2] = None
    /\ response.code = 200
    /\ response.body[1].usage =
           Some([prompt_tokens |-> 100, completion_tokens |-> 150, total_tokens |-> 250])

\* C17: a status answer that carries a result carries between 1 and 15
\* requirements and between 1 and 15 skills; a model output with an empty
\* list or with more than 15 entries in one of them is rejected with a
\* validation error, its workflow stores no result, and no poll relays one.
C17_RelayedListsWithinLimits ==
    /\ (response.endpoint = "status" /\ response.body # None) =>
          (response.body[1].result # None =>
              /\ Len(response.body[1].result[1].requirements) \in 1..15
              /\ Len(response.body[1].result[1].skills) \in 1..15)
    /\ \A w \in DOMAIN executions :
          LET o == executions[w].outcome.final_output IN
          ( \/ Len(o.requirements) = 0 \/ Len(o.requirements) > 15
            \/ Len(o.skills) = 0 \/ Len(o.skills) > 15 ) =>
              /\ executions[w].raised # None
              /\ workflows[w].stored = None
              /\ workflows[w].status # Some("COMPLETED")
              /\ (request.endpoint = "status" /\ request.workflow_id = w
                   /\ response.body # None) => response.body[1].result = None

\* the model's output listed 16 requirements: the run was rejected and the
\* poll of its workflow was answered "failed" without a result
C17_Witness ==
    /\ request.endpoint = "status"
    /\ request.workflow_id \in DOMAIN executions
    /\ Len(executions[request.workflow_id].outcome.final_output.requirements) = 16
    /\ executions[request.workflow_id].outcome.raised = None
    /\ executions[request.workflow_id].raised # None
    /\ response.code = 200
    /\ response.body[1].status = "failed"
    /\ response.body[1].result = None

\* s starts with / ends with t
StartsWith(s, t) == Len(s) >= Len(t) /\ SubSeq(s, 1, Len(t)) = t
EndsWith(s, t) == Len(s) >= Len(t) /\ SubSeq(s, Len(s) - Len(t) + 1, Len(s)) = t

AsksToAnalyzePosting(prompt) ==
    EndsWith(prompt, "Please analyze this job posting and extract the key information.")
AsksForTypical(prompt) ==
    EndsWith(prompt, "Please research this role and provide typical requirements and skills.")

\* C18 as stated: the prompt of every run starts with the job title; when
\* the request carries a job_url, the empty string included, the prompt
\* contains the URL and asks to analyze the posting; when it carries none,
\* the prompt asks for the typical requirements and skills.
C18_AsStated ==
    \A w \in DOMAIN executions :
        LET req == executions[w].request
            prompt == executions[w].agent_inputs[1]
        IN  /\ StartsWith(prompt, "Job Title: " \o req.job_title)
            /\ (req.job_url # None) =>
                  /\ StrContains(prompt, "Job URL: " \o req.job_url[1])
                  /\ AsksToAnalyzePosting(prompt)
            /\ (req.job_url = None) => AsksForTypical(prompt)

\* C18 (amended): the prompt of every run starts with the job title; when
\* the request carries a non-empty job_url the prompt contains that URL and
\* asks to analyze the posting; when the job_url is missing or the empty
\* string the prompt names no URL and asks for the typical requirements and
\* skills.
C18_PromptFollowsNonEmptyUrl ==
    \A w \in DOMAIN executions :
        LET req == executions[w].request
            prompt == executions[w].agent_inputs[1]
            url == IF req.job_url = None THEN "" ELSE req.job_url[1]
        IN  /\ StartsWith(prompt, "Job Title: " \o req.job_title)
            /\ (Len(url) > 0) =>
                  /\ StrContains(prompt, "Job URL: " \o url)
                  /\ AsksToAnalyzePosting(prompt)
            /\ (Len(url) = 0) =>
                  /\ ~StrContains(prompt, "Job URL")
                  /\ AsksForTypical(prompt)

\* a submission with an empty job_url was accepted and echoed back, and the
\* run of its workflow asked for the typical requirements and skills
C18_Witness ==
    /\ request.endpoint = "analyze"
    /\ request.job_url = Some("")
    /\ response.code = 200
    /\ response.body[1].job_url = Some("")
    /\ response.body[1].workflow_id \in DOMAIN executions
    /\ executions[response.body[1].workflow_id].request.job_url = Some("")
    /\ AsksForTypical(executions[response.body[1].workflow_id].agent_inputs[1])
\* C19: the Settings object has every attribute get_temporal_client and
\* run_worker read, so that a valid submission handled by the function
\* itself, with the credential configured and no engine call failing because
\* the engine cannot be reached, finds the connection handle set and is
\* answered 200 "running".
C19_ConfiguredSubmissionRuns ==
    ( /\ ~patched
      /\ ValidSubmission
      /\ (environ.OPENAI_API_KEY # None \/ dotenv.OPENAI_API_KEY # None)
      /\ \A i \in DOMAIN calls : ~Unreachable(calls[i]) )
    => /\ response.code = 200
       /\ response.body # None
       /\ response.body[1].status = "running"
       /\ temporal_client # None
       /\ (ClientSettingsReads \cup WorkerSettingsReads) \subseteq SettingsFields

\* C20: handling one request, analyze_role calls start_workflow at most once
\* and never describe or result; get_workflow_status calls describe at most
\* once, result at most once and never start_workflow; this holds also when
\* the call raised.
C20_NoRetries ==
    /\ Cardinality(CallsTo("start_workflow")) <= 1
    /\ Cardinality(CallsTo("describe")) <= 1
    /\ Cardinality(CallsTo("result")) <= 1
    /\ Cardinality(CallsTo("get_workflow_handle")) <= 1
    /\ (request.endpoint = "analyze") =>
          (CallsTo("describe") = {} /\ CallsTo("result") = {})
    /\ (request.endpoint = "status") => CallsTo("start_workflow") = {}
    /\ \A i \in DOMAIN calls :
          (calls[i].raised # None /\ calls[i].op # "Client.connect") =>
              i = Len(calls)

\* start_workflow raised because the engine could not be reached: it was
\* called once, and the submission was answered 500
C20_Witness ==
    /\ request.endpoint = "analyze"
    /\ Cardinality(CallsTo("start_workflow")) = 1
    /\ \E i \in CallsTo("start_workflow") : calls[i].raised = Some("engine unavailable")
    /\ response.code = 500
DeleteStep == privacy_reply'.op = "delete_user_data"

StoresUnchanged == user_data' = user_data /\ deletion_logs' = deletion_logs

\* C22: delete_user_data proceeds only when the confirmation is exactly
\* "DELETE": any other confirmation is answered 400 with both stores
\* unchanged, whether or not the user exists; the right confirmation for an
\* unknown user is answered 404 with both stores unchanged
C22_DeleteNeedsConfirmation ==
    [][DeleteStep =>
        LET req == privacy_reply'.request IN
        /\ req.confirmation # "DELETE" =>
              privacy_reply'.status = 400 /\ StoresUnchanged
        /\ (req.confirmation = "DELETE" /\ req.user_id \notin DOMAIN user_data) =>
              privacy_reply'.status = 404 /\ StoresUnchanged
        /\ privacy_reply'.status = 200 => req.confirmation = "DELETE"]_vars

C22_Witness ==
    /\ privacy_reply.op = "delete_user_data"
    /\ privacy_reply.request.confirmation = "delete"
    /\ privacy_reply.request.user_id \in DOMAIN user_data
    /\ privacy_reply.status = 400
    /\ deletion_logs # << >>

\* users the log records as deleted
LoggedUsers == { deletion_logs[i].user_id : i \in DOMAIN deletion_logs }

\* C23: a successful delete_user_data removes that user's entry and no
\* other, and appends exactly one record to deletion_logs; from then on
\* get_deletion_status reports deleted: true for the user and a repeated
\* delete is answered 404; deletion_logs never shrinks; the confirmation ids
\* of the successful deletions are pairwise distinct
C23_DeletionIsRecordedForGood ==
    /\ [][/\ (DeleteStep /\ privacy_reply'.status = 200) =>
                LET req == privacy_reply'.request IN
                /\ req.user_id \in DOMAIN user_data
                /\ user_data' = Without(user_data, req.user_id)
                /\ Len(deletion_logs') = Len(deletion_logs) + 1
                /\ SubSeq(deletion_logs', 1, Len(deletion_logs)) = deletion_logs
                /\ deletion_logs'[Len(deletion_logs')].user_id = req.user_id
                /\ privacy_reply'.body.confirmation_id =
                       "del_" \o ToString(Len(deletion_logs'))
          /\ (DeleteStep /\ privacy_reply'.request.user_id \in LoggedUsers
                          /\ privacy_reply'.request.confirmation = "DELETE") =>
                privacy_reply'.status = 404
          /\ (privacy_reply'.op = "get_deletion_status"
                  /\ privacy_reply'.request.user_id \in LoggedUsers) =>
                privacy_reply'.body.deleted
          /\ Len(deletion_logs') >= Len(deletion_logs)
          /\ SubSeq(deletion_logs', 1, Len(deletion_logs)) = deletion_logs]_vars
    /\ [](\A i, j \in DOMAIN confirmations :
             i # j => confirmations[i] # confirmations[j])

C23_Witness ==
    /\ Len(confirmations) = 2
    /\ privacy_reply.op = "delete_user_data"
    /\ privacy_reply.status = 404
    /\ privacy_reply.request.confirmation = "DELETE"
    /\ privacy_reply.request.user_id \in LoggedUsers
    /\ user_data = << >>

\* the step is the handling of a request by the named endpoint of review.py
\* (the clock stands still while a handler runs)
ReviewStep(op) == review_reply'.op = op /\ now' = now

\* whether the token was handed out by create_review_link and has not expired
GoodToken(token) == token \in IssuedTokens /\ token.exp > now

\* the ids of a sequence of comments, in order
IdsOf(cs) == [i \in DOMAIN cs |-> cs[i].id]

\* the comments add_comment accepted for a document, in order
AddedFor(document_id) ==
    SelectSeq(added, LAMBDA c : c.document_id = document_id)

\* C24: add_comment with an invalid or expired token is answered 403 and
\* leaves the comments store unchanged; with a valid token it appends exactly
\* one comment, resolved false, to the document named in the token and
\* changes no other document's comments; get_comments returns exactly the
\* comments added for the document, in insertion order, with their count
C24_CommentsOnlyThroughValidToken ==
    [][/\ ReviewStep("add_comment") =>
            LET token == review_reply'.request.token IN
            IF GoodToken(token)
            THEN /\ review_reply'.status = 200
                 /\ LET old == CommentsOf(comments, token.document_id)
                        new == CommentsOf(comments', token.document_id)
                    IN /\ Len(new) = Len(old) + 1
                       /\ SubSeq(new, 1, Len(old)) = old
                       /\ new[Len(new)].resolved = FALSE
                       /\ new[Len(new)].document_id = token.document_id
                       /\ new[Len(new)].id = review_reply'.body.comment_id
                 /\ \A d \in Documents \ {token.document_id} :
                       CommentsOf(comments', d) = CommentsOf(comments, d)
            ELSE /\ review_reply'.status = 403
                 /\ comments' = comments
       /\ ReviewStep("get_comments") =>
            LET body == review_reply'.body IN
            /\ IdsOf(body.comments) = IdsOf(AddedFor(review_reply'.request))
            /\ \A i \in DOMAIN body.comments :
                  body.comments[i].document_id = review_reply'.request
            /\ body.count = Len(AddedFor(review_reply'.request))]_vars

C24_Witness ==
    /\ review_reply.op = "add_comment"
    /\ review_reply.status = 403
    /\ review_reply.request.token \in IssuedTokens
    /\ \A d \in Documents : Len(CommentsOf(comments, d)) = 1

\* every comment of a store
StoredComments(store) ==
    UNION { { store[i].comments[j] : j \in DOMAIN store[i].comments } : i \in DOMAIN store }

\* the store with the comment of that id marked resolved
WithResolved(store, comment_id) ==
    [i \in DOMAIN store |->
        [store[i] EXCEPT !.comments =
            [j \in DOMAIN @ |->
                IF @[j].id = comment_id THEN [@[j] EXCEPT !.resolved = TRUE] ELSE @[j]]]]

ResolvedIn(store) == { c \in StoredComments(store) : c.resolved }

\* C25: resolve_comment marks exactly the comment with the given id as
\* resolved and changes nothing else; resolving a resolved comment succeeds
\* and changes nothing; an unknown id is answered 404 with nothing changed;
\* a resolved comment is never unresolved again
C25_ResolveMarksOneForGood ==
    [][/\ ReviewStep("resolve_comment") =>
            LET id == review_reply'.request IN
            IF \E c \in StoredComments(comments) : c.id = id
            THEN /\ review_reply'.status = 200
                 /\ comments' = WithResolved(comments, id)
                 /\ Cardinality(ResolvedIn(comments')) <=
                       Cardinality(ResolvedIn(comments)) + 1
                 /\ (\E c \in ResolvedIn(comments) : c.id = id) => comments' = comments
            ELSE /\ review_reply'.status = 404
                 /\ comments' = comments
       /\ \A c \in ResolvedIn(comments) : c \in ResolvedIn(comments')]_vars

C25_Witness ==
    /\ review_reply.op = "resolve_comment"
    /\ review_reply.status = 200
    /\ \E i \in DOMAIN comments :
         /\ Len(comments[i].comments) = 2
         /\ comments[i].comments[1].resolved # comments[i].comments[2].resolved

\* the status an operation of routers/workflow.py sets
StatusSetBy(op) ==
    IF op = "submit_edits" THEN "validating"
    ELSE IF op = "resolve_suggestions" THEN "processing"
    ELSE "approved"

\* C26: resolve_suggestions, approve and get_workflow_status on a run id
\* that was never submitted are answered 404 and leave workflow_states
\* unchanged; submit_edits on an unknown run id creates the run; every stored
\* run has status validating, processing or approved; get_workflow_status
\* reports the status set by the most recent successful operation on the run
C26_RunsExistBySubmission ==
    /\ [][/\ (edit_reply'.op \in { "resolve_suggestions", "approve", "get_workflow_status" }
               /\ edit_reply'.run_id \notin DOMAIN workflow_states) =>
                 /\ edit_reply'.status = 404
                 /\ workflow_states' = workflow_states
          /\ edit_reply'.op = "submit_edits" =>
                 /\ edit_reply'.status = 200
                 /\ edit_reply'.run_id \in DOMAIN workflow_states'
          /\ (edit_reply'.op = "get_workflow_status"
               /\ edit_reply'.run_id \in DOMAIN workflow_states) =>
                 /\ edit_reply'.status = 200
                 /\ edit_reply'.body.status = StatusSetBy(last_op[edit_reply'.run_id])]_vars
    /\ [](\A r \in DOMAIN workflow_states :
             workflow_states[r].status \in { "validating", "processing", "approved" })
    /\ [](DOMAIN last_op = DOMAIN workflow_states)

C26_Witness ==
    /\ edit_reply.op = "get_workflow_status"
    /\ edit_reply.status = 200
    /\ edit_reply.body.status = "validating"
    /\ edit_reply.body.suggestions_resolved > 0
    /\ DOMAIN workflow_states # RunIds

====
